---- MODULE Spec2Model ----
(***************************************************************************)
(* Model of dvc/pkg.py: the package descriptor Pkg (install, uninstall,    *)
(* update, the lazily opened and cached repo handle, dumpd), the           *)
(* PkgManager built on it (install, uninstall, get_pkg, imp) and the       *)
(* one-shot PkgManager.get, which works inside a temporary directory.      *)
(*                                                                         *)
(* Strings are sequences of one-character strings, so that basename, join, *)
(* dirname and the URL scheme test are computed as the library computes    *)
(* them.  The file system is a function from normalised paths (sequences   *)
(* of path segments) to what is stored there.                              *)
(***************************************************************************)
EXTENDS Naturals, Sequences, FiniteSets

VARIABLES fs, desc, kwargs, opens, last, gets

vars == <<fs, desc, kwargs, opens, last, gets>>

(***************************************************************************)
(* Bounds of the model.  NGet calls of get run at once, each once; the     *)
(* caller holds one descriptor (Descs), every other descriptor is the one  *)
(* a manager call builds for itself; MaxOpens caps the count of            *)
(* repository opens per descriptor and MaxOuts the outputs a path can      *)
(* resolve to.                                                             *)
(***************************************************************************)
NGet == 2
MaxOpens == 2

Descs == {1}
Gets == 1..NGet

(***************************************************************************)
(* Strings and paths.                                                      *)
(***************************************************************************)
None == <<"None">>

Sep == "/"

Letters == {"a", "b", "o", "r", "s", "t"}

Truthy(s) == s # None /\ s # <<>>

RECURSIVE rfind(_, _)
rfind(p, i) == IF i = 0 THEN 0 ELSE IF p[i] = Sep THEN i ELSE rfind(p, i - 1)

RECURSIVE find(_, _, _)
find(p, c, i) ==
    IF i > Len(p) THEN 0 ELSE IF p[i] = c THEN i ELSE find(p, c, i + 1)

basename(p) == SubSeq(p, rfind(p, Len(p)) + 1, Len(p))

isabs(p) == Len(p) > 0 /\ p[1] = Sep

join(a, b) ==
    IF isabs(b) THEN b
    ELSE IF a = <<>> \/ a[Len(a)] = Sep THEN a \o b
    ELSE a \o <<Sep>> \o b

RECURSIVE rstrip(_)
rstrip(p) ==
    IF p # <<>> /\ p[Len(p)] = Sep THEN rstrip(SubSeq(p, 1, Len(p) - 1)) ELSE p

RECURSIVE lstrip(_)
lstrip(p) == IF p # <<>> /\ p[1] = Sep THEN lstrip(Tail(p)) ELSE p

dirname(p) ==
    LET head == SubSeq(p, 1, rfind(p, Len(p)))
    IN IF head # <<>> /\ rstrip(head) # <<>> THEN rstrip(head) ELSE head

scheme(u) ==
    LET i == find(u, ":", 1)
    IN IF i > 1 /\ \A k \in 1..(i - 1) : u[k] \in Letters
       THEN SubSeq(u, 1, i - 1)
       ELSE <<>>

urlpath(u) ==
    IF scheme(u) # <<>> THEN SubSeq(u, find(u, ":", 1) + 1, Len(u)) ELSE u

RECURSIVE Segs(_, _, _)
Segs(p, i, cur) ==
    IF i > Len(p) THEN (IF cur = <<>> THEN <<>> ELSE <<cur>>)
    ELSE IF p[i] = Sep
         THEN (IF cur = <<>> THEN <<>> ELSE <<cur>>) \o Segs(p, i + 1, <<>>)
         ELSE Segs(p, i + 1, Append(cur, p[i]))

Cwd == <<"/", "w">>

RECURSIVE Unsegs(_)
Unsegs(n) == IF n = <<>> THEN <<>> ELSE <<Sep>> \o Head(n) \o Unsegs(Tail(n))

normpath(p) ==
    LET n == Segs(p, 1, <<>>)
    IN IF n = <<>> THEN (IF isabs(p) THEN <<Sep>> ELSE <<".">>)
       ELSE IF isabs(p) THEN Unsegs(n) ELSE Tail(Unsegs(n))

abspath(p) == normpath(IF isabs(p) THEN p ELSE join(Cwd, p))

Norm(p) == Segs(IF isabs(p) THEN p ELSE join(Cwd, p), 1, <<>>)

(***************************************************************************)
(* The file system.                                                        *)
(***************************************************************************)
Dir == [kind |-> "dir", origin |-> None, ver |-> None, cache_dir |-> None,
        cache_type |-> None, marker |-> FALSE]

IsPrefix(n, m) == Len(n) <= Len(m) /\ SubSeq(m, 1, Len(n)) = n

exists(f, p) == p # <<>> /\ Norm(p) \in DOMAIN f

rmtree(f, p) ==
    [m \in {x \in DOMAIN f : ~IsPrefix(Norm(p), x)} |-> f[m]]

Put(f, n, c) == [m \in DOMAIN f \cup {n} |-> IF m = n THEN c ELSE f[m]]

makedirs(f, n) ==
    [m \in DOMAIN f \cup {SubSeq(n, 1, k) : k \in 1..Len(n)} |->
        IF m \in DOMAIN f THEN f[m] ELSE Dir]

(***************************************************************************)
(* Pkg: the package descriptor.                                            *)
(***************************************************************************)
NoErr == "none"

NoHandle == [open |-> FALSE, path |-> None, version |-> None]

NoDesc == [live |-> FALSE, pkg_dir |-> None, url |-> None, name |-> None,
           version |-> None, path |-> None, repo |-> NoHandle]

PARAM_NAME == "name"

PARAM_URL == "url"

PARAM_VERSION == "version"

NoKw == [k \in {} |-> None]

KwGet(kw, k) == IF k \in DOMAIN kw THEN kw[k] ELSE None

Constructible(kw) == KwGet(kw, PARAM_NAME) # None \/ KwGet(kw, PARAM_URL) # None

PkgInitFalsy(pkg_dir, kw) ==
    LET name == IF ~Truthy(KwGet(kw, PARAM_NAME))
                THEN basename(KwGet(kw, PARAM_URL))
                ELSE KwGet(kw, PARAM_NAME)
    IN [live |-> TRUE, pkg_dir |-> pkg_dir, url |-> KwGet(kw, PARAM_URL),
        name |-> name, version |-> KwGet(kw, PARAM_VERSION),
        path |-> join(pkg_dir, name), repo |-> NoHandle]

PkgInit(pkg_dir, kw) ==
    LET name == IF KwGet(kw, PARAM_NAME) = None
                THEN basename(KwGet(kw, PARAM_URL))
                ELSE KwGet(kw, PARAM_NAME)
    IN [live |-> TRUE, pkg_dir |-> pkg_dir, url |-> KwGet(kw, PARAM_URL),
        name |-> name, version |-> KwGet(kw, PARAM_VERSION),
        path |-> join(pkg_dir, name), repo |-> NoHandle]

installed_complete(pkg, f) ==
    exists(f, pkg.path) /\ f[Norm(pkg.path)].kind # "partial"

installed(pkg, f) == exists(f, pkg.path)

Repo(path, version) == [open |-> TRUE, path |-> path, version |-> version]

repo_nocache(pkg, f) ==
    IF ~installed(pkg, f)
    THEN [pkg |-> pkg, err |-> "NotInstalled", opened |-> 0]
    ELSE IF f[Norm(pkg.path)].kind # "repo"
    THEN [pkg |-> pkg, err |-> "NotDvcRepo", opened |-> 0]
    ELSE [pkg |-> pkg, err |-> NoErr, opened |-> 1]

repo_unchecked(pkg, f) ==
    IF pkg.repo.open
    THEN [pkg |-> pkg, err |-> NoErr, opened |-> 0]
    ELSE IF ~installed(pkg, f) \/ f[Norm(pkg.path)].kind # "repo"
    THEN [pkg |-> pkg, err |-> "NotDvcRepo", opened |-> 0]
    ELSE [pkg |-> [pkg EXCEPT !.repo = Repo(pkg.path, pkg.version)],
          err |-> NoErr, opened |-> 1]

repo(pkg, f) ==
    IF pkg.repo.open
    THEN [pkg |-> pkg, err |-> NoErr, opened |-> 0]
    ELSE IF ~installed(pkg, f)
    THEN [pkg |-> pkg, err |-> "NotInstalled", opened |-> 0]
    ELSE IF f[Norm(pkg.path)].kind # "repo"
    THEN [pkg |-> pkg, err |-> "NotDvcRepo", opened |-> 0]
    ELSE [pkg |-> [pkg EXCEPT !.repo = Repo(pkg.path, pkg.version)],
          err |-> NoErr, opened |-> 1]

HandleOk(f, h) == Norm(h.path) \in DOMAIN f /\ f[Norm(h.path)].kind = "repo"

clone_from(f, url, path, c) ==
    IF ~Truthy(url) \/ exists(f, path) \/ c = "fail" THEN f
    ELSE Put(makedirs(f, Norm(path)), Norm(path),
             [Dir EXCEPT !.kind = IF c = "ok" THEN "repo" ELSE "partial",
                         !.origin = url])

CloneErr_swallowed(f, url, path, c) == NoErr

CloneErr(f, url, path, c) ==
    IF ~Truthy(url) \/ exists(f, path) \/ c = "fail" THEN "CloneFailure"
    ELSE IF c = "interrupt" THEN "Interrupted"
    ELSE NoErr

Ret(f, pkg, steps, err, opened) ==
    [fs |-> f, pkg |-> pkg, steps |-> steps, err |-> err, opened |-> opened]

uninstall_noop(pkg, f) == Ret(f, pkg, <<"skip">>, NoErr, 0)

uninstall(pkg, f) ==
    IF ~installed(pkg, f) THEN Ret(f, pkg, <<"skip">>, NoErr, 0)
    ELSE Ret(rmtree(f, pkg.path), pkg, <<"rmtree">>, NoErr, 0)

clone_and_configure(pkg, f, cache_dir, c, k) ==
    LET s0 == IF installed(pkg, f) THEN uninstall(pkg, f).steps ELSE <<>>
        f0 == IF installed(pkg, f) THEN uninstall(pkg, f).fs ELSE f
        s1 == s0 \o <<"clone">>
        f1 == clone_from(f0, pkg.url, pkg.path, c)
        e1 == CloneErr(f0, pkg.url, pkg.path, c)
        r2 == repo(pkg, f1)
        h2 == r2.pkg.repo
        s2 == s1 \o <<"scm_checkout">>
        f2 == [f1 EXCEPT ![Norm(h2.path)].ver = pkg.version]
        pkg3 == IF Truthy(pkg.version) THEN r2.pkg ELSE pkg
        f3 == IF Truthy(pkg.version) THEN f2 ELSE f1
        s3 == IF Truthy(pkg.version) THEN s2 ELSE s1
        o3 == IF Truthy(pkg.version) THEN r2.opened ELSE 0
        r4 == repo(pkg3, f3)
        h4 == r4.pkg.repo
    IN IF e1 # NoErr THEN Ret(f1, pkg, s1, e1, 0)
       ELSE IF Truthy(pkg.version) /\ r2.err # NoErr
       THEN Ret(f1, pkg, s1, r2.err, 0)
       ELSE IF Truthy(pkg.version) /\ ~HandleOk(f1, h2)
       THEN Ret(f1, r2.pkg, s2, "ScmError", r2.opened)
       ELSE IF Truthy(pkg.version) /\ k = "fail"
       THEN Ret(f1, r2.pkg, s2, "CheckoutFailure", r2.opened)
       ELSE IF ~Truthy(cache_dir) THEN Ret(f3, pkg3, s3, NoErr, o3)
       ELSE IF r4.err # NoErr THEN Ret(f3, pkg3, s3, r4.err, o3)
       ELSE IF ~HandleOk(f3, h4)
       THEN Ret(f3, r4.pkg, s3 \o <<"set_dir">>, "ConfigError", o3 + r4.opened)
       ELSE Ret([f3 EXCEPT ![Norm(h4.path)].cache_dir = cache_dir], r4.pkg,
                s3 \o <<"set_dir">>, NoErr, o3 + r4.opened)

install_always(pkg, f, cache_dir, force, c, k) ==
    clone_and_configure(pkg, f, cache_dir, c, k)

install_ignore_force(pkg, f, cache_dir, force, c, k) ==
    IF installed(pkg, f) THEN Ret(f, pkg, <<"skip">>, NoErr, 0)
    ELSE clone_and_configure(pkg, f, cache_dir, c, k)

install(pkg, f, cache_dir, force, c, k) ==
    IF installed(pkg, f) /\ ~force THEN Ret(f, pkg, <<"skip">>, NoErr, 0)
    ELSE clone_and_configure(pkg, f, cache_dir, c, k)

update(pkg, f, k) ==
    LET r == repo(pkg, f)
    IN IF r.err # NoErr THEN Ret(f, pkg, <<>>, r.err, 0)
       ELSE IF ~HandleOk(f, r.pkg.repo) \/ k = "fail"
       THEN Ret(f, r.pkg, <<"fetch">>, "FetchFailure", r.opened)
       ELSE Ret(f, r.pkg, <<"fetch">>, NoErr, r.opened)

dumpd_placeholders(pkg) ==
    [k \in {PARAM_NAME, PARAM_URL, PARAM_VERSION} |->
        IF k = PARAM_NAME THEN pkg.name
        ELSE IF k = PARAM_URL THEN pkg.url
        ELSE pkg.version]

dumpd(pkg) ==
    [k \in {PARAM_NAME}
            \cup (IF Truthy(pkg.url) THEN {PARAM_URL} ELSE {})
            \cup (IF Truthy(pkg.version) THEN {PARAM_VERSION} ELSE {}) |->
        IF k = PARAM_NAME THEN pkg.name
        ELSE IF k = PARAM_URL THEN pkg.url
        ELSE pkg.version]

(***************************************************************************)
(* PkgManager.                                                             *)
(***************************************************************************)
DvcDir == <<"/", "d">>

PKG_DIR == <<"p">>

PkgDir == join(DvcDir, PKG_DIR)

CacheDir == <<"/", "d", "/", "c">>

Info(name, version) ==
    [k \in {PARAM_NAME}
            \cup (IF Truthy(version) THEN {PARAM_VERSION} ELSE {}) |->
        IF k = PARAM_NAME THEN name ELSE version]

HostImp(f, info, h) ==
    LET r == repo(PkgInit(PkgDir, info), f)
    IN IF r.err # NoErr THEN r.err
       ELSE IF h = "fail" THEN "ImportFailure"
       ELSE NoErr

IsLocatorScheme(f, name) == scheme(name) # <<>>

IsLocator(f, name) == exists(f, name) \/ scheme(name) # <<>>

imp(f, name, version, c, k, h) ==
    LET pkg == IF IsLocator(f, name)
               THEN PkgInit(PkgDir, [url |-> name])
               ELSE PkgInit(PkgDir, [name |-> name])
        r == IF IsLocator(f, name)
             THEN install(pkg, f, CacheDir, FALSE, c, k)
             ELSE Ret(f, pkg, <<>>, NoErr, 0)
    IN IF r.err # NoErr THEN r
       ELSE [r EXCEPT !.steps = r.steps \o <<"imp">>,
                      !.err = HostImp(r.fs, Info(pkg.name, version), h)]

(***************************************************************************)
(* Inputs of the calls.                                                    *)
(***************************************************************************)
U_sa == <<"s", ":", "/", "a">>

U_la == <<"/", "a">>

U_sl == <<"s", ":", "/", "a", "/">>

N_a == <<"a">>

N_b == <<"b">>

V_v == <<"v">>

Names == {N_a, N_b, <<>>}

Versions == {None, V_v}

KwSet == {[url |-> U_sa], [url |-> U_sa, version |-> V_v], [name |-> N_a],
          [url |-> U_la, name |-> N_b], [url |-> U_sl],
          [url |-> U_sa, name |-> <<>>], [url |-> U_sa, version |-> <<>>],
          [url |-> <<>>, name |-> N_b], NoKw}

MgrInstallInputs ==
    {<<U_sa, NoKw>>, <<U_sa, [version |-> V_v]>>, <<U_sa, [name |-> N_b]>>,
     <<U_la, NoKw>>, <<U_sl, NoKw>>}

ImpNames == {U_sa, U_la, N_a, N_b}

CloneOutcomes == {"ok", "fail", "interrupt"}

Outcomes == {"ok", "fail"}

CloneChoices(pkg, f, force) ==
    IF installed(pkg, f) /\ ~force THEN {"ok"} ELSE CloneOutcomes

CheckoutChoices(pkg, c) ==
    IF Truthy(pkg.version) /\ c = "ok" THEN Outcomes ELSE {"ok"}

(***************************************************************************)
(* State.                                                                  *)
(***************************************************************************)
NoCall == [op |-> "none", d |-> 0, arg |-> None, path |-> None,
           force |-> FALSE, cache_dir |-> None, was |-> FALSE,
           marked |-> FALSE, cached |-> FALSE, steps |-> <<>>, err |-> NoErr,
           opened |-> 0, out |-> NoKw, kind |-> "none", url |-> None,
           version |-> None]

Call(op, d, arg, pkg, force, cache_dir, r, out) ==
    [op |-> op, d |-> d, arg |-> arg, path |-> pkg.path, force |-> force,
     cache_dir |-> cache_dir, was |-> installed(pkg, fs),
     marked |-> installed(pkg, fs) /\ fs[Norm(pkg.path)].marker,
     cached |-> pkg.repo.open, steps |-> r.steps, err |-> r.err,
     opened |-> r.opened, out |-> out,
     kind |-> IF exists(fs, pkg.path) THEN fs[Norm(pkg.path)].kind
              ELSE "none",
     url |-> pkg.url, version |-> pkg.version]

NoGet == [pc |-> "idle", url |-> None, src |-> None, out |-> None,
          version |-> None, tmp_dir |-> None, pkg |-> NoDesc, outs |-> 0,
          find |-> None, target |-> None, steps |-> <<>>, err |-> NoErr]

Init ==
    /\ fs = [n \in {Norm(Cwd), Norm(U_la), Norm(DvcDir), Norm(PkgDir)} |->
                IF n = Norm(U_la) THEN [Dir EXCEPT !.kind = "repo"] ELSE Dir]
    /\ desc = [d \in Descs |-> NoDesc]
    /\ kwargs = [d \in Descs |-> NoKw]
    /\ opens = [d \in Descs |-> 0]
    /\ last = NoCall
    /\ gets = [g \in Gets |-> NoGet]

(***************************************************************************)
(* Calls on a descriptor the caller holds (obtained from get_pkg).         *)
(***************************************************************************)
get_pkg(d, kw) ==
    /\ ~desc[d].live
    /\ IF Constructible(kw)
       THEN /\ desc' = [desc EXCEPT ![d] = PkgInit(PkgDir, kw)]
            /\ kwargs' = [kwargs EXCEPT ![d] = kw]
            /\ last' = [NoCall EXCEPT !.op = "get_pkg", !.d = d,
                                      !.path = PkgInit(PkgDir, kw).path]
       ELSE /\ UNCHANGED <<desc, kwargs>>
            /\ last' = [NoCall EXCEPT !.op = "get_pkg", !.d = d,
                                      !.err = "TypeError"]
    /\ UNCHANGED <<fs, opens, gets>>

Apply(d, r) ==
    /\ opens[d] + r.opened <= MaxOpens
    /\ fs' = r.fs
    /\ desc' = [desc EXCEPT ![d] = r.pkg]
    /\ opens' = [opens EXCEPT ![d] = @ + r.opened]
    /\ UNCHANGED <<kwargs, gets>>

PkgInstall(d, cache_dir, force) ==
    /\ desc[d].live
    /\ \E c \in CloneChoices(desc[d], fs, force) :
       \E k \in CheckoutChoices(desc[d], c) :
         LET r == install(desc[d], fs, cache_dir, force, c, k)
         IN /\ Apply(d, r)
            /\ last' = Call("install", d, None, desc[d], force, cache_dir, r,
                            NoKw)

PkgUninstall(d) ==
    /\ desc[d].live
    /\ Apply(d, uninstall(desc[d], fs))
    /\ last' = Call("uninstall", d, None, desc[d], FALSE, None,
                    uninstall(desc[d], fs), NoKw)

PkgUpdate(d) ==
    /\ desc[d].live
    /\ \E k \in Outcomes :
         LET r == update(desc[d], fs, k)
         IN /\ Apply(d, r)
            /\ last' = Call("update", d, None, desc[d], FALSE, None, r, NoKw)

PkgRepo(d) ==
    /\ desc[d].live
    /\ LET r == repo(desc[d], fs)
       IN /\ Apply(d, Ret(fs, r.pkg, <<>>, r.err, r.opened))
          /\ last' = Call("repo", d, None, desc[d], FALSE, None,
                          Ret(fs, r.pkg, <<>>, r.err, r.opened), NoKw)

PkgDumpd(d) ==
    /\ desc[d].live
    /\ last' = Call("dumpd", d, None, desc[d], FALSE, None,
                    Ret(fs, desc[d], <<>>, NoErr, 0), dumpd(desc[d]))
    /\ UNCHANGED <<fs, desc, kwargs, opens, gets>>

(***************************************************************************)
(* Calls on the manager; each builds its own descriptor.                   *)
(***************************************************************************)
Merge(url, extra) ==
    [k \in {PARAM_URL} \cup DOMAIN extra |->
        IF k = PARAM_URL THEN url ELSE extra[k]]

MgrInstall_no_cache_dir(url, force, extra) ==
    \E c \in CloneChoices(PkgInit(PkgDir, Merge(url, extra)), fs, force) :
    \E k \in CheckoutChoices(PkgInit(PkgDir, Merge(url, extra)), c) :
      \E pkg \in {PkgInit(PkgDir, Merge(url, extra))} :
      \E r \in {install(pkg, fs, None, force, c, k)} :
         /\ fs' = r.fs
         /\ last' = Call("mgr.install", 0, url, pkg, force, CacheDir, r, NoKw)
         /\ UNCHANGED <<desc, kwargs, opens, gets>>

MgrInstall(url, force, extra) ==
    \E c \in CloneChoices(PkgInit(PkgDir, Merge(url, extra)), fs, force) :
    \E k \in CheckoutChoices(PkgInit(PkgDir, Merge(url, extra)), c) :
      \E pkg \in {PkgInit(PkgDir, Merge(url, extra))} :
      \E r \in {install(pkg, fs, CacheDir, force, c, k)} :
         /\ fs' = r.fs
         /\ last' = Call("mgr.install", 0, url, pkg, force, CacheDir, r, NoKw)
         /\ UNCHANGED <<desc, kwargs, opens, gets>>

MgrUninstall(name) ==
    LET pkg == PkgInit(PkgDir, [name |-> name])
    IN /\ fs' = uninstall(pkg, fs).fs
       /\ last' = Call("mgr.uninstall", 0, name, pkg, FALSE, None,
                       uninstall(pkg, fs), NoKw)
       /\ UNCHANGED <<desc, kwargs, opens, gets>>

MgrImp(name, version) ==
    \E c \in (IF IsLocator(fs, name)
              THEN CloneChoices(PkgInit(PkgDir, [url |-> name]), fs, FALSE)
              ELSE {"ok"}) :
    \E h \in Outcomes :
      \E r \in {imp(fs, name, version, c, "ok", h)} :
         /\ fs' = r.fs
         /\ last' = Call("imp", 0, name, r.pkg, FALSE,
                         IF IsLocator(fs, name) THEN CacheDir ELSE None, r,
                         Info(r.pkg.name, version))
         /\ UNCHANGED <<desc, kwargs, opens, gets>>

(***************************************************************************)
(* The user writes a marker file into an installed package.                *)
(***************************************************************************)
WriteMarker(n) ==
    /\ n \in DOMAIN fs
    /\ IsPrefix(Norm(PkgDir), n)
    /\ fs[n].kind # "dir"
    /\ ~fs[n].marker
    /\ fs' = [fs EXCEPT ![n].marker = TRUE]
    /\ last' = [NoCall EXCEPT !.op = "marker", !.path = Unsegs(n)]
    /\ UNCHANGED <<desc, kwargs, opens, gets>>

PkgNodes == {Norm(join(PkgDir, n)) : n \in Names}

(***************************************************************************)
(* PkgManager.get, one step of the call at a time.  pc is the position of  *)
(* the call: "install" .. "checkout" are inside the with block of the      *)
(* temporary directory, "exit" is the block's exit, "done" the return.     *)
(***************************************************************************)
O_o == <<"o">>

S_o == <<"/", "o">>

TmpNames == <<(<<".", "x">>), (<<".", "y">>), (<<".", "z">>)>>

mkdtemp_fixed(f, dpath) == join(dpath, TmpNames[1])

mkdtemp(f, dpath) ==
    LET free == {j \in 1..Len(TmpNames) : ~exists(f, join(dpath, TmpNames[j]))}
    IN join(dpath, TmpNames[CHOOSE j \in free : \A k \in free : j <= k])

GetInputs ==
    {[url |-> U_sa, src |-> S_o, out |-> None, version |-> V_v],
     [url |-> U_sl, src |-> S_o, out |-> O_o, version |-> None],
     [url |-> U_la, src |-> S_o, out |-> <<"/", "q", "/", "o">>,
      version |-> None]}

LINK_TYPES == <<"reflink", "hardlink", "copy">>

File == [Dir EXCEPT !.kind = "file"]

GetOut(g) == IF ~Truthy(g.out) THEN basename(g.src) ELSE g.out

GetRaiseNoCleanup(g, err) == [g EXCEPT !.pc = "done", !.err = err]

GetRaise(g, err) == [g EXCEPT !.pc = "exit", !.err = err]

GetStep(g, pc, step) == [g EXCEPT !.pc = pc, !.steps = Append(@, step)]

GetStart(i, in, m) ==
    LET g == [NoGet EXCEPT !.url = in.url, !.src = in.src, !.out = in.out,
                           !.version = in.version]
        dpath == dirname(abspath(GetOut(g)))
        tmp_dir == mkdtemp(fs, dpath)
    IN /\ gets[i].pc = "idle"
       /\ IF exists(fs, dpath) /\ m = "ok"
          THEN /\ fs' = Put(fs, Norm(tmp_dir), Dir)
               /\ gets' = [gets EXCEPT ![i] =
                             [g EXCEPT !.pc = "install", !.tmp_dir = tmp_dir]]
          ELSE /\ fs' = fs
               /\ gets' = [gets EXCEPT ![i] =
                             [g EXCEPT !.pc = "done", !.err = "TempDirFailure"]]
       /\ UNCHANGED <<desc, kwargs, opens, last>>

GetInstall(i) ==
    /\ gets[i].pc = "install"
    /\ \E pkg \in {PkgInit(gets[i].tmp_dir,
                            [url |-> gets[i].url,
                             version |-> gets[i].version])} :
       \E c \in CloneChoices(pkg, fs, FALSE) :
       \E k \in CheckoutChoices(pkg, c) :
       \E r \in {install(pkg, fs, None, FALSE, c, k)} :
         /\ fs' = r.fs
         /\ gets' = [gets EXCEPT ![i] =
                       IF r.err # NoErr
                       THEN GetRaise([@ EXCEPT !.pkg = r.pkg,
                                               !.steps = @ \o r.steps], r.err)
                       ELSE [@ EXCEPT !.pc = "config", !.pkg = r.pkg,
                                      !.steps = @ \o r.steps]]
    /\ UNCHANGED <<desc, kwargs, opens, last>>

GetConfig(i) ==
    /\ gets[i].pc = "config"
    /\ \E r \in {repo(gets[i].pkg, fs)} :
         IF r.err # NoErr
         THEN /\ fs' = fs
              /\ gets' = [gets EXCEPT ![i] = GetRaise(@, r.err)]
         ELSE /\ fs' = [fs EXCEPT ![Norm(r.pkg.repo.path)].cache_type =
                                     LINK_TYPES]
              /\ gets' = [gets EXCEPT ![i] =
                            GetStep([@ EXCEPT !.pkg = r.pkg], "resolve",
                                    "set_type")]
    /\ UNCHANGED <<desc, kwargs, opens, last>>

FindErrFirst(n) == IF n = 0 THEN "PathNotFound" ELSE NoErr

FindErr(n) ==
    IF n = 0 THEN "PathNotFound" ELSE IF n > 1 THEN "AmbiguousPath" ELSE NoErr

GetSrc(g) == join(g.pkg.path, lstrip(urlpath(g.src)))

GetResolve(i, n) ==
    /\ gets[i].pc = "resolve"
    /\ gets' = [gets EXCEPT ![i] =
                  IF FindErr(n) # NoErr
                  THEN GetRaise(GetStep([@ EXCEPT !.outs = n,
                                                  !.find = GetSrc(gets[i])],
                                        "resolve", "find_outs"), FindErr(n))
                  ELSE GetStep([@ EXCEPT !.outs = n,
                                         !.find = GetSrc(gets[i])],
                               "fetch", "find_outs")]
    /\ UNCHANGED <<fs, desc, kwargs, opens, last>>

GetFetch_to_checkout(i, m) ==
    /\ gets[i].pc = "fetch"
    /\ gets' = [gets EXCEPT ![i] =
                  IF m = "fail"
                  THEN GetRaise(GetStep(@, "fetch", "fetch"), "FetchFailure")
                  ELSE GetStep(@, "checkout", "fetch")]
    /\ UNCHANGED <<fs, desc, kwargs, opens, last>>

GetFetch(i, m) ==
    /\ gets[i].pc = "fetch"
    /\ gets' = [gets EXCEPT ![i] =
                  IF m = "fail"
                  THEN GetRaise(GetStep(@, "fetch", "fetch"), "FetchFailure")
                  ELSE GetStep(@, "redirect", "fetch")]
    /\ UNCHANGED <<fs, desc, kwargs, opens, last>>

GetRedirect(i) ==
    /\ gets[i].pc = "redirect"
    /\ gets' = [gets EXCEPT ![i] =
                  GetStep([@ EXCEPT !.target = abspath(GetOut(gets[i]))],
                          "checkout", "redirect")]
    /\ UNCHANGED <<fs, desc, kwargs, opens, last>>

GetCheckout(i, m) ==
    /\ gets[i].pc = "checkout"
    /\ IF m = "fail" \/ ~HandleOk(fs, gets[i].pkg.repo)
       THEN /\ fs' = fs
            /\ gets' = [gets EXCEPT ![i] =
                          GetRaise(GetStep(@, "checkout", "checkout"),
                                   "CheckoutFailure")]
       ELSE /\ fs' = Put(fs, Norm(gets[i].target),
                         [File EXCEPT !.origin = gets[i].url])
            /\ gets' = [gets EXCEPT ![i] = GetStep(@, "exit", "checkout")]
    /\ UNCHANGED <<desc, kwargs, opens, last>>

GetExit(i) ==
    /\ gets[i].pc = "exit"
    /\ fs' = rmtree(fs, gets[i].tmp_dir)
    /\ gets' = [gets EXCEPT ![i] = GetStep(@, "done", "cleanup")]
    /\ UNCHANGED <<desc, kwargs, opens, last>>

MaxOuts == 2

NextGet ==
    \/ \E i \in Gets, in \in GetInputs, m \in Outcomes : GetStart(i, in, m)
    \/ \E i \in Gets : GetInstall(i)
    \/ \E i \in Gets : GetConfig(i)
    \/ \E i \in Gets, n \in 0..MaxOuts : GetResolve(i, n)
    \/ \E i \in Gets, m \in Outcomes : GetFetch(i, m)
    \/ \E i \in Gets : GetRedirect(i)
    \/ \E i \in Gets, m \in Outcomes : GetCheckout(i, m)
    \/ \E i \in Gets : GetExit(i)

SpecGet == Init /\ [][NextGet]_vars

(***************************************************************************)
(* Spec: the life of one descriptor, next to manager uninstalls of the     *)
(* same package directory and the user's marker files.                     *)
(***************************************************************************)
Next ==
    \/ \E d \in Descs, kw \in KwSet : get_pkg(d, kw)
    \/ \E d \in Descs, cd \in {None, CacheDir}, force \in BOOLEAN :
          PkgInstall(d, cd, force)
    \/ \E d \in Descs : PkgUninstall(d)
    \/ \E d \in Descs : PkgUpdate(d)
    \/ \E d \in Descs : PkgRepo(d)
    \/ \E d \in Descs : PkgDumpd(d)
    \/ \E name \in Names : MgrUninstall(name)
    \/ \E n \in PkgNodes : WriteMarker(n)

Spec == Init /\ [][Next]_vars

(***************************************************************************)
(* SpecMgr: the calls on the manager.                                      *)
(***************************************************************************)
NextMgr ==
    \/ \E in \in MgrInstallInputs, force \in BOOLEAN :
          MgrInstall(in[1], force, in[2])
    \/ \E name \in Names : MgrUninstall(name)
    \/ \E name \in ImpNames, version \in Versions : MgrImp(name, version)
    \/ \E n \in {Norm(join(PkgDir, N_a))} : WriteMarker(n)

SpecMgr == Init /\ [][NextMgr]_vars

(***************************************************************************)
(* SpecCalls: one caller that works on one package through a descriptor    *)
(* and through the manager's install and imp, or else is a process that    *)
(* makes one call of get and nothing else (get is a class method, run      *)
(* outside any repository).                                                *)
(***************************************************************************)
CallsKw == {[url |-> U_sa], [url |-> U_sa, version |-> V_v]}

CallsInstall == {<<U_sa, NoKw>>, <<U_sa, [version |-> V_v]>>}

CallsImp == {U_sa, N_b}

Solo == {1}

NoGetStarted == \A i \in Gets : gets[i].pc = "idle"

NextCalls ==
    \/ \E d \in Descs, kw \in CallsKw : NoGetStarted /\ get_pkg(d, kw)
    \/ \E d \in Descs, cd \in {None, CacheDir}, force \in BOOLEAN :
          NoGetStarted /\ PkgInstall(d, cd, force)
    \/ \E d \in Descs : NoGetStarted /\ PkgUninstall(d)
    \/ \E d \in Descs : NoGetStarted /\ PkgUpdate(d)
    \/ \E in \in CallsInstall, force \in BOOLEAN :
          NoGetStarted /\ MgrInstall(in[1], force, in[2])
    \/ \E name \in CallsImp, version \in Versions :
          NoGetStarted /\ MgrImp(name, version)
    \/ \E i \in Solo, in \in GetInputs, m \in Outcomes :
          last.op = "none" /\ GetStart(i, in, m)
    \/ \E i \in Solo : GetInstall(i)
    \/ \E i \in Solo : GetConfig(i)
    \/ \E i \in Solo, n \in 0..MaxOuts : GetResolve(i, n)
    \/ \E i \in Solo, m \in Outcomes : GetFetch(i, m)
    \/ \E i \in Solo : GetRedirect(i)
    \/ \E i \in Solo, m \in Outcomes : GetCheckout(i, m)
    \/ \E i \in Solo : GetExit(i)

SpecCalls == Init /\ [][NextCalls]_vars

(***************************************************************************)
(* Properties.                                                             *)
(***************************************************************************)
Under(f, p) == {n \in DOMAIN f : IsPrefix(Norm(p), n)}

Has(steps, x) == \E j \in 1..Len(steps) : steps[j] = x

\* C1: whenever a call of get that created its temporary directory returns
\* or raises, whatever step ended it, the temporary directory and everything
\* under it are gone from the file system.
C1_TmpDirRemoved ==
    [][\A i \in Gets :
          (gets[i].pc # "done" /\ gets'[i].pc = "done"
             /\ gets'[i].tmp_dir # None)
          => Under(fs', gets'[i].tmp_dir) = {}]_vars

C1_Witness ==
    \E i \in Gets :
       /\ gets[i].pc = "done"
       /\ gets[i].tmp_dir # None
       /\ gets[i].err = "FetchFailure"
       /\ Has(gets[i].steps, "clone")
       /\ Under(fs, gets[i].tmp_dir) = {}

\* C2: when find_outs_by_path gives no output the call of get fails with
\* PathNotFound, when it gives more than one it fails with AmbiguousPath, and
\* in both cases the call performs neither the fetch nor the checkout.
C2_NoFetchOnBadPath ==
    \A i \in Gets :
       (Has(gets[i].steps, "find_outs") /\ gets[i].outs # 1)
       => /\ gets[i].pc \in {"exit", "done"}
          /\ gets[i].err = (IF gets[i].outs = 0 THEN "PathNotFound"
                            ELSE "AmbiguousPath")
          /\ ~Has(gets[i].steps, "fetch")
          /\ ~Has(gets[i].steps, "redirect")
          /\ ~Has(gets[i].steps, "checkout")
          /\ gets[i].target = None

C2_Witness ==
    \E i \in Gets :
       /\ gets[i].pc = "done"
       /\ gets[i].outs = 2
       /\ gets[i].err = "AmbiguousPath"

\* C3: Pkg.install with force=false on a package whose path exists clones
\* nothing, checks out no version, writes no cache-dir setting, raises no
\* error and leaves the file system and the descriptor as they were.
C3_SkipLeavesContent ==
    [][(last'.op = "install" /\ ~last'.force /\ exists(fs, last'.path))
         => /\ fs' = fs
            /\ desc' = desc
            /\ last'.steps = <<"skip">>
            /\ last'.err = NoErr]_vars

C3_Witness ==
    /\ last.op = "install"
    /\ ~last.force
    /\ last.was
    /\ last.marked
    /\ last.steps = <<"skip">>
    /\ fs[Norm(last.path)].marker

\* C4: Pkg.install with force=true on an installed package removes the whole
\* path first and clones second; after a successful call path holds the fresh
\* clone of url and nothing of the previous installation (no marker, nothing
\* under path).
C4_ForceReclones ==
    (last.op = "install" /\ last.force /\ last.was)
    => /\ Len(last.steps) >= 2
       /\ last.steps[1] = "rmtree"
       /\ last.steps[2] = "clone"
       /\ last.err = NoErr
          => /\ Under(fs, last.path) = {Norm(last.path)}
             /\ fs[Norm(last.path)].kind = "repo"
             /\ fs[Norm(last.path)].origin = desc[last.d].url
             /\ ~fs[Norm(last.path)].marker

C4_Witness ==
    /\ last.op = "install"
    /\ last.force
    /\ last.was
    /\ last.marked
    /\ last.err = NoErr
    /\ ~fs[Norm(last.path)].marker

\* C5: after a successful install the path exists (installed is true); after
\* an uninstall, by the descriptor or by another descriptor of the same root
\* and name, it does not; an uninstall right after an uninstall of the same
\* path raises nothing and changes nothing.
C5_InstallUninstall ==
    /\ []((last.op = "install" /\ last.err = NoErr) => exists(fs, last.path))
    /\ [](last.op \in {"uninstall", "mgr.uninstall"}
            => (~exists(fs, last.path) /\ last.err = NoErr))
    /\ [][(/\ last.op \in {"uninstall", "mgr.uninstall"}
            /\ last'.op \in {"uninstall", "mgr.uninstall"}
            /\ Norm(last'.path) = Norm(last.path))
           => (fs' = fs /\ last'.steps = <<"skip">> /\ last'.err = NoErr)]_vars

C5_Witness ==
    /\ last.op = "uninstall"
    /\ last.was
    /\ last.steps = <<"rmtree">>
    /\ ~exists(fs, last.path)

\* C6: every access to the repo handle and every update() made while the
\* path does not exist fails with NotInstalled, also after the handle was
\* opened earlier and the package was then uninstalled.
C6_NotInstalledAlways ==
    (last.op \in {"repo", "update"} /\ ~last.was)
    => last.err = "NotInstalled"

\* C7: a descriptor opens its repository at most once: once the handle is
\* cached every later access returns that same handle and opens nothing; an
\* access that failed caches nothing, and an access without a cached handle
\* that succeeds is one that opened the repository.
C7_HandleOpenedOnce ==
    /\ [](\A d \in Descs : opens[d] <= 1)
    /\ [][\A d \in Descs :
            desc[d].repo.open
            => (desc'[d].repo = desc[d].repo /\ opens'[d] = opens[d])]_vars
    /\ []((last.op = "repo" /\ last.err # NoErr)
           => (~desc[last.d].repo.open /\ last.opened = 0))
    /\ []((last.op = "repo" /\ last.err = NoErr /\ ~last.cached)
           => (desc[last.d].repo.open /\ last.opened = 1))

C7_Witness ==
    /\ last.op = "repo"
    /\ last.cached
    /\ last.err = NoErr
    /\ last.opened = 0
    /\ opens[last.d] = 1

\* C8: imp installs exactly when name is an existing local path or has a URL
\* scheme: then a non-forced install with the host cache dir runs before the
\* host import, and an installed package of the derived name is left as it
\* was; otherwise imp clones nothing and changes nothing on disk.
C8_ImpInstallsLocators ==
    [][last'.op = "imp"
       => IF exists(fs, last'.arg) \/ scheme(last'.arg) # <<>>
          THEN /\ last'.path = join(PkgDir, basename(last'.arg))
               /\ last'.steps[1] \in {"skip", "clone"}
               /\ ~Has(last'.steps, "rmtree")
               /\ exists(fs, last'.path)
                  => (fs' = fs /\ last'.steps[1] = "skip")
               /\ (last'.steps[1] = "clone" /\ Has(last'.steps, "imp"))
                  => /\ last'.steps = <<"clone", "set_dir", "imp">>
                     /\ fs'[Norm(last'.path)].cache_dir = CacheDir
          ELSE /\ fs' = fs
               /\ last'.steps = <<"imp">>]_vars

C8_Witness ==
    /\ last.op = "imp"
    /\ last.arg = U_la
    /\ last.was
    /\ last.marked
    /\ last.steps = <<"skip", "imp">>
    /\ fs[Norm(last.path)].marker

\* C9: imp with a name that is no locator and whose package is not installed
\* under the package directory fails with NotInstalled.
C9_ImpMissingPackage ==
    [][(/\ last'.op = "imp"
        /\ ~exists(fs, last'.arg)
        /\ scheme(last'.arg) = <<>>
        /\ ~exists(fs, join(PkgDir, last'.arg)))
       => last'.err = "NotInstalled"]_vars

C9_Witness ==
    /\ last.op = "imp"
    /\ last.arg = N_b
    /\ ~last.was
    /\ last.steps = <<"imp">>
    /\ last.err = "NotInstalled"

IsFinalSegment(n, u) ==
    /\ \A j \in 1..Len(n) : n[j] # Sep
    /\ Len(n) <= Len(u)
    /\ SubSeq(u, Len(u) - Len(n) + 1, Len(u)) = n
    /\ Len(n) < Len(u) => u[Len(u) - Len(n)] = Sep

\* C10: a descriptor's name is the explicit name whenever one was given and
\* the final path segment of url otherwise; its path is root joined with
\* name; and no call on the descriptor changes its name or its path.
C10_NameAndPath ==
    /\ [](\A d \in Descs :
            desc[d].live
            => /\ IF PARAM_NAME \in DOMAIN kwargs[d]
                  THEN desc[d].name = kwargs[d][PARAM_NAME]
                  ELSE IsFinalSegment(desc[d].name, kwargs[d][PARAM_URL])
               /\ desc[d].pkg_dir = PkgDir
               /\ desc[d].path = join(desc[d].pkg_dir, desc[d].name))
    /\ [][\A d \in Descs :
            desc[d].live
            => /\ desc'[d].name = desc[d].name
               /\ desc'[d].path = desc[d].path
               /\ desc'[d].pkg_dir = desc[d].pkg_dir]_vars

C10_Witness ==
    \E d \in Descs :
       /\ desc[d].live
       /\ kwargs[d] = [url |-> U_sa, name |-> <<>>]
       /\ desc[d].name = <<>>
       /\ desc[d].path = <<"/", "d", "/", "p", "/">>
       /\ last.op = "install"
       /\ last.err = NoErr

IsSet(kw, k) == k \in DOMAIN kw /\ kw[k] # None /\ kw[k] # <<>>

\* C11: the result of dumpd() always holds the descriptor's name, holds url
\* exactly when url was given and is not empty, holds version exactly when
\* version was given and is not empty, never holds a null value, and a
\* descriptor built from it with the same root has the same path.
C11_DumpdRoundTrip ==
    last.op = "dumpd"
    => /\ PARAM_NAME \in DOMAIN last.out
       /\ last.out[PARAM_NAME] = desc[last.d].name
       /\ PARAM_URL \in DOMAIN last.out <=> IsSet(kwargs[last.d], PARAM_URL)
       /\ PARAM_VERSION \in DOMAIN last.out
             <=> IsSet(kwargs[last.d], PARAM_VERSION)
       /\ \A k \in DOMAIN last.out :
             /\ last.out[k] # None
             /\ k # PARAM_NAME => last.out[k] = kwargs[last.d][k]
       /\ PkgInit(desc[last.d].pkg_dir, last.out).path = desc[last.d].path

C11_Witness ==
    /\ last.op = "dumpd"
    /\ kwargs[last.d] = [url |-> U_sa, version |-> <<>>]
    /\ last.out = [name |-> N_a, url |-> U_sa]
    /\ PkgInit(PkgDir, last.out).path = <<"/", "d", "/", "p", "/", "a">>

Running(g) == g.pc \notin {"idle", "done"}

\* C12: two calls of get that are running at the same time, also with
\* outputs in the same parent directory, have temporary directories that are
\* different and not inside one another, each installs its package inside
\* its own; and the cleanup of one call leaves every node of the other
\* running call's temporary directory in place and unchanged.
C12_OwnTmpDir ==
    /\ [](\A i \in Gets : \A j \in Gets \ {i} :
            (Running(gets[i]) /\ Running(gets[j]))
            => /\ ~IsPrefix(Norm(gets[i].tmp_dir), Norm(gets[j].tmp_dir))
               /\ gets[i].pkg.live
                  => /\ gets[i].pkg.pkg_dir = gets[i].tmp_dir
                     /\ ~IsPrefix(Norm(gets[j].tmp_dir),
                                  Norm(gets[i].pkg.path)))
    /\ [][\A i \in Gets : \A j \in Gets \ {i} :
            (gets[i].pc = "exit" /\ gets'[i].pc = "done" /\ Running(gets[j]))
            => /\ Under(fs, gets[j].tmp_dir) # {}
               /\ \A n \in Under(fs, gets[j].tmp_dir) :
                     n \in DOMAIN fs' /\ fs'[n] = fs[n]]_vars

C12_Witness ==
    \E i \in Gets : \E j \in Gets \ {i} :
       /\ gets[i].pc = "done"
       /\ Has(gets[i].steps, "cleanup")
       /\ gets[j].pc = "checkout"
       /\ gets[i].tmp_dir # gets[j].tmp_dir
       /\ dirname(gets[i].tmp_dir) = dirname(gets[j].tmp_dir)
       /\ gets[j].tmp_dir = join(Cwd, TmpNames[2])
       /\ fs[Norm(gets[j].pkg.path)].kind = "repo"

InstallWant(was, force, version, cache_dir) ==
    IF was /\ ~force THEN <<"skip">>
    ELSE (IF was THEN <<"rmtree">> ELSE <<>>) \o <<"clone">>
         \o (IF Truthy(version) THEN <<"scm_checkout">> ELSE <<>>)
         \o (IF Truthy(cache_dir) THEN <<"set_dir">> ELSE <<>>)

ImpWant(locator, was) ==
    (IF locator THEN InstallWant(was, FALSE, None, CacheDir) ELSE <<>>)
    \o <<"imp">>

GetWant(g) ==
    (IF g.steps # <<>> /\ g.steps[1] = "skip" THEN <<"skip">>
     ELSE InstallWant(FALSE, FALSE, g.version, None))
    \o <<"set_type", "find_outs", "fetch", "redirect", "checkout">>

GetBody(g) ==
    IF g.steps # <<>> /\ g.steps[Len(g.steps)] = "cleanup"
    THEN SubSeq(g.steps, 1, Len(g.steps) - 1)
    ELSE g.steps

ErrStep(err) ==
    IF err \in {"CloneFailure", "Interrupted"} THEN {"clone"}
    ELSE IF err = "ScmError" THEN {"scm_checkout"}
    ELSE IF err = "CheckoutFailure" THEN {"scm_checkout", "checkout"}
    ELSE IF err = "ConfigError" THEN {"set_dir"}
    ELSE IF err = "FetchFailure" THEN {"fetch"}
    ELSE IF err \in {"PathNotFound", "AmbiguousPath"} THEN {"find_outs"}
    ELSE IF err = "ImportFailure" THEN {"imp"}
    ELSE {}

HandleErrs == {"NotInstalled", "NotDvcRepo"}

Propagates(steps, err, want) ==
    IF err = NoErr THEN steps = want
    ELSE /\ IsPrefix(steps, want)
         /\ IF err \in HandleErrs
            THEN steps # want \/ steps[Len(steps)] = "imp"
            ELSE steps # <<>> /\ steps[Len(steps)] \in ErrStep(err)

Cloned(f, path, url) ==
    /\ exists(f, path)
    /\ f[Norm(path)].kind = "repo"
    /\ f[Norm(path)].origin = url

\* C13: a call returns normally only when every step it was to make was made
\* and had its effect, the two skips (install of an installed package without
\* force, uninstall of a package that is not installed) being the only steps
\* left out; a call that fails raises the failure of the step it made last,
\* and made none of the steps that follow it (the exit of get's temporary
\* directory block, which always runs, apart).
C13_FailuresPropagate ==
    /\ last.op \in {"install", "mgr.install"}
       => /\ Propagates(last.steps, last.err,
                        InstallWant(last.was, last.force, last.version,
                                    last.cache_dir))
          /\ (last.err = NoErr /\ Has(last.steps, "clone"))
             => Cloned(fs, last.path, last.url)
    /\ last.op = "uninstall"
       => /\ last.err = NoErr
          /\ last.steps = (IF last.was THEN <<"rmtree">> ELSE <<"skip">>)
    /\ last.op = "update" => Propagates(last.steps, last.err, <<"fetch">>)
    /\ last.op = "imp"
       => /\ Propagates(last.steps, last.err,
                        ImpWant(last.cache_dir # None, last.was))
          /\ (last.err = NoErr /\ Has(last.steps, "clone"))
             => Cloned(fs, last.path, last.arg)
    /\ \A i \in Gets :
          IF gets[i].pc \in {"exit", "done"}
          THEN \/ gets[i].err = "TempDirFailure" /\ gets[i].steps = <<>>
               \/ /\ Propagates(GetBody(gets[i]), gets[i].err,
                                 GetWant(gets[i]))
                  /\ gets[i].err = NoErr
                     => /\ Norm(gets[i].target) \in DOMAIN fs
                        /\ fs[Norm(gets[i].target)].origin = gets[i].url
          ELSE /\ gets[i].err = NoErr
               /\ IsPrefix(gets[i].steps, GetWant(gets[i]))

C13_Witness ==
    /\ last.op = "install"
    /\ last.force
    /\ last.was
    /\ last.cache_dir = CacheDir
    /\ last.steps = <<"rmtree", "clone", "scm_checkout">>
    /\ last.err = "CheckoutFailure"
    /\ fs[Norm(last.path)].cache_dir = None

Before(steps, a, b) ==
    \E j \in 1..Len(steps) : \E k \in (j + 1)..Len(steps) :
       steps[j] = a /\ steps[k] = b

\* C14: a call of get makes its checkout only after the link-type override,
\* the fetch and the redirection of the target, and with the transient
\* package's link types set to reflink, hardlink, copy; a call that succeeds
\* has made, in this order and nothing else: the clone (with the version
\* checkout when a version is given, and no cache-dir setting), the
\* link-type override, the resolution to exactly one output, the fetch, the
\* redirection to the absolute out path and the checkout.
C14_GetStepOrder ==
    \A i \in Gets :
       /\ Has(gets[i].steps, "checkout")
          => /\ Before(gets[i].steps, "clone", "set_type")
             /\ Before(gets[i].steps, "set_type", "find_outs")
             /\ Before(gets[i].steps, "find_outs", "fetch")
             /\ Before(gets[i].steps, "fetch", "redirect")
             /\ Before(gets[i].steps, "redirect", "checkout")
             /\ gets[i].outs = 1
             /\ gets[i].target = abspath(GetOut(gets[i]))
             /\ isabs(gets[i].target)
       /\ gets[i].pc \in {"resolve", "fetch", "redirect", "checkout"}
          => /\ fs[Norm(gets[i].pkg.path)].cache_type
                  = <<"reflink", "hardlink", "copy">>
             /\ fs[Norm(gets[i].pkg.path)].cache_dir = None
       /\ (gets[i].pc \in {"exit", "done"} /\ gets[i].err = NoErr)
          => /\ GetBody(gets[i])
                  = <<"clone">>
                    \o (IF Truthy(gets[i].version) THEN <<"scm_checkout">>
                        ELSE <<>>)
                    \o <<"set_type", "find_outs", "fetch", "redirect",
                         "checkout">>
             /\ Norm(gets[i].target) \in DOMAIN fs
             /\ fs[Norm(gets[i].target)].origin = gets[i].url

C14_Witness ==
    \E i \in Gets :
       /\ gets[i].pc = "done"
       /\ gets[i].err = NoErr
       /\ gets[i].version = V_v
       /\ gets[i].steps = <<"clone", "scm_checkout", "set_type", "find_outs",
                            "fetch", "redirect", "checkout", "cleanup">>
       /\ gets[i].target = <<"/", "w", "/", "o">>
       /\ fs[Norm(gets[i].target)].kind = "file"

\* C15: an uninstall of a package whose path holds the partial directory of
\* an interrupted clone raises nothing and removes the path with everything
\* under it, so that the package is not installed; the install that follows
\* an uninstall of the same path starts with the clone.
C15_UninstallPartial ==
    /\ []((last.op \in {"uninstall", "mgr.uninstall"}
            /\ last.kind = "partial")
           => /\ last.err = NoErr
              /\ last.steps = <<"rmtree">>
              /\ Under(fs, last.path) = {}
              /\ ~exists(fs, last.path))
    /\ [][(/\ last.op \in {"uninstall", "mgr.uninstall"}
            /\ last'.op = "install"
            /\ Norm(last'.path) = Norm(last.path))
           => (last'.steps # <<>> /\ last'.steps[1] = "clone")]_vars

C15_Witness ==
    /\ last.op = "uninstall"
    /\ last.kind = "partial"
    /\ last.steps = <<"rmtree">>
    /\ last.err = NoErr
    /\ ~exists(fs, last.path)

Count(steps, x) == Cardinality({j \in 1..Len(steps) : steps[j] = x})

\* C16: a PkgManager.install or imp that cloned and returned normally has
\* set the clone's cache directory to the host's cache directory; in every
\* call the setting is written once, after the clone and, when a version is
\* given, after the version checkout, and not at all when one of them
\* failed; the package a call of get installs never gets a cache directory.
C16_CacheDirConfigured ==
    /\ last.op \in {"mgr.install", "imp"}
       => /\ (last.err = NoErr /\ Has(last.steps, "clone"))
             => /\ Count(last.steps, "set_dir") = 1
                /\ exists(fs, last.path)
                /\ fs[Norm(last.path)].cache_dir = CacheDir
          /\ Has(last.steps, "set_dir")
             => /\ Before(last.steps, "clone", "set_dir")
                /\ Truthy(last.version)
                   => Before(last.steps, "scm_checkout", "set_dir")
          /\ (Has(last.steps, "clone") /\ ~Has(last.steps, "set_dir")
                /\ exists(fs, last.path))
             => /\ last.err # NoErr
                /\ fs[Norm(last.path)].cache_dir = None
    /\ \A i \in Gets :
          /\ ~Has(gets[i].steps, "set_dir")
          /\ (gets[i].pkg.live /\ Running(gets[i])
                /\ exists(fs, gets[i].pkg.path))
             => fs[Norm(gets[i].pkg.path)].cache_dir = None

C16_Witness ==
    /\ last.op = "mgr.install"
    /\ last.version = V_v
    /\ last.err = NoErr
    /\ last.steps = <<"clone", "scm_checkout", "set_dir">>
    /\ fs[Norm(last.path)].ver = V_v
    /\ fs[Norm(last.path)].cache_dir = CacheDir

\* C17: whenever PkgManager.install(url), or imp with a locator, returns
\* normally, the package directory holds at basename(url) a checkout that
\* was cloned from that url, whatever installs were made before.
C17_CheckoutIsOfUrl ==
    (/\ last.op \in {"mgr.install", "imp"}
     /\ last.url = last.arg
     /\ last.path = join(PkgDir, basename(last.arg))
     /\ last.err = NoErr)
    => Cloned(fs, join(PkgDir, basename(last.arg)), last.arg)

\* C18: after a Pkg.install that failed in the clone or in the checkout of
\* the version, the path does not exist (installed is false).
C18_FailedInstallNotInstalled ==
    (last.op = "install" /\ last.err \in {"CloneFailure", "CheckoutFailure"})
    => ~exists(fs, last.path)

\* C19: an uninstall, and the removal step of a forced install, leave the
\* package directory itself and every package in it other than the one
\* named in place and unchanged, for every name, the empty name derived from
\* a url that ends in a separator included.
C19_UninstallFrame ==
    [][(\/ last'.op \in {"uninstall", "mgr.uninstall"}
        \/ /\ last'.op \in {"install", "mgr.install"}
           /\ Has(last'.steps, "rmtree"))
       => \A n \in DOMAIN fs :
             (/\ IsPrefix(Norm(PkgDir), n)
              /\ \/ n = Norm(PkgDir)
                 \/ Norm(last'.path) = Norm(PkgDir)
                 \/ ~IsPrefix(Norm(last'.path), n))
             => (n \in DOMAIN fs' /\ fs'[n] = fs[n])]_vars

====
